---- MODULE Spec2Model ----
(***************************************************************************)
(* Model of VoiceActivityDetector (src/voice-orb-vad.js).                  *)
(*                                                                         *)
(* Levels are exact rationals <<n, d>> (d > 0, lowest terms); the values   *)
(* used are far from the threshold, so floating-point rounding does not    *)
(* decide any comparison.  Time is counted in units of 10 ms.              *)
(*                                                                         *)
(* A listener is user code called synchronously by trigger(); what the     *)
(* listeners of an event do is an input of the operation: a function L     *)
(* from event names to a reaction (nothing, call stop(), call start()).    *)
(***************************************************************************)
EXTENDS Integers, Sequences, FiniteSets, TLC

VARIABLES state, config, analyser, animationFrame, pendingFrames,
          now, emitted, returned, ghost, audio, orb, adv

vars == <<state, config, analyser, animationFrame, pendingFrames,
          now, emitted, returned, ghost, audio, orb, adv>>

\* the variables of the detector
vad == <<state, config, analyser, animationFrame, pendingFrames,
         now, emitted, returned, ghost, audio, adv>>

-----------------------------------------------------------------------------
(* Bounds *)

\* samples smoothed with a non-zero coefficient in one behaviour (each one
\* makes a new rational level)
MaxTicks == 3

\* animation-frame callbacks pending at the same time
MaxPending == 2

\* microphone streams open at the same time
MaxStreams == 2

\* "no timestamp" for the history variables (the program itself uses 0)
NoTime == 0 - 1

-----------------------------------------------------------------------------
(* Exact rational arithmetic for the JavaScript numbers of the detector *)

RECURSIVE GCD(_, _)
GCD(a, b) == IF b = 0 THEN a ELSE GCD(b, a % b)

Norm(n, d) == IF n = 0 THEN <<0, 1>> ELSE <<n \div GCD(n, d), d \div GCD(n, d)>>

RMul(x, y) == Norm(x[1] * y[1], x[2] * y[2])
RAdd(x, y) == Norm(x[1] * y[2] + y[1] * x[2], x[2] * y[2])
RSub(x, y) == Norm(x[1] * y[2] - y[1] * x[2], x[2] * y[2])
RGt(x, y) == x[1] * y[2] > y[1] * x[2]
RLt(x, y) == RGt(y, x)

Zero == <<0, 1>>
One == <<1, 1>>
Half == <<1, 2>>
Tenth == <<1, 10>>

-----------------------------------------------------------------------------
(* Inputs *)

\* average / 255 of the analyser's frequency bins
RawLevels == {Zero, <<1, 16>>, Half}

\* the values Date.now() takes (10 ms units): the instants of the scenarios,
\* with gaps on both sides of minDuration and maxSilence
Instants == {0, 5, 6, 10, 15, 16, 25, 35}

Events == {"voiceStart", "voiceEnd", "voiceLevel", "error"}
Quiet == [e \in Events |-> "none"]
\* what the registered listeners do in one operation: nothing; stop() from a
\* voiceLevel or voiceStart listener; start() from a voiceEnd or error
\* listener; stop() from voiceLevel with start() from voiceEnd
Listeners ==
    {Quiet,
     [Quiet EXCEPT !["voiceLevel"] = "stop"],
     [Quiet EXCEPT !["voiceStart"] = "stop"],
     [Quiet EXCEPT !["voiceEnd"] = "start"],
     [Quiet EXCEPT !["error"] = "start"],
     [Quiet EXCEPT !["voiceLevel"] = "stop", !["voiceEnd"] = "start"]}

\* threshold 0.1, minDuration 100 ms, maxSilence 200 ms, sensitivity 1, smoothing 0
ScenarioConfig ==
    [threshold |-> Tenth, minDuration |-> 10, maxSilence |-> 20,
     sensitivity |-> One, smoothing |-> Zero]

\* a configuration with gain and smoothing
SmoothConfig ==
    [threshold |-> <<1, 25>>, minDuration |-> 5, maxSilence |-> 10,
     sensitivity |-> Half, smoothing |-> Half]

Configs == {ScenarioConfig, SmoothConfig}

\* the objects passed to updateConfig(): shorter hysteresis times
Options == {[minDuration |-> 5, maxSilence |-> 10]}

-----------------------------------------------------------------------------
(* History variables: what the claims speak about and the program does not  *)
(* store.  They never influence the program's state.                        *)
(*   nTicks         samples smoothed with a non-zero smoothing coefficient  *)
(*   aboveRunStart  time of the first tick of the current run of            *)
(*                  consecutive above-threshold ticks                       *)
(*   debounced      the last voiceStart came after such a run, at least     *)
(*                  minDuration long                                        *)
(*   interrupted    an above-threshold tick was processed since the         *)
(*                  silence timer was started                               *)
(*   sessQuiet      every sample since start() was below                    *)
(*                  threshold / sensitivity                                 *)
(*   sessLoud       every sample since start() was above it (RawLevels has  *)
(*                  one such value: a constant input), and no listener      *)
(*                  called back into the detector                           *)
(*   sessStarted    a voiceStart was emitted since start()                  *)
(*   sessMax        the greatest sample read since start() (0 before the    *)
(*                  first one)                                              *)
(*   c3*, c5pos, c6pos  progress through the scenarios of the properties    *)
(*   opStopped, opStarted  a stop() / start() took effect in the operation  *)
(*                  that ran last                                           *)
(*   opConfigured   the operation that ran last was updateConfig()          *)
(*   unmatched      the last voiceStart or voiceEnd emitted by the detector  *)
(*                  was a voiceStart                                        *)
(*   opTicks        ticks processed by the operation that ran last (a       *)
(*                  listener's start() runs a tick inside the operation);   *)
(*                  d.tick is the number of the tick being executed         *)
(* d.site and d.endOK are scratch values of the running operation: who      *)
(* emits, and whether the silence that ends the voice was uninterrupted.    *)
(* An emitted event is kept with its data and with what the model knows of  *)
(* the moment: the emitting site, isActive, the running tick and the sample *)
(* that tick read from the analyser, and `open`: whether a voiceStart was   *)
(* unmatched when the event was emitted.                                    *)
(* d.entry is what the running tick found when it was entered: "later" (not *)
(* the first tick after a start()), or, for the first tick, "clean" (reset  *)
(* values, and start() had found nothing else), "reset" (reset values,      *)
(* where start() had found values of an earlier session) or "stale".        *)

InitGhost ==
    [nTicks |-> 0,
     aboveRunStart |-> NoTime, debounced |-> FALSE, interrupted |-> FALSE,
     sessLoud |-> TRUE, sessQuiet |-> TRUE, sessStarted |-> FALSE,
     c5pos |-> NoTime, c6pos |-> NoTime,
     c3phase |-> "idle", c3zeroStart |-> NoTime, c3ends |-> 0,
     sessMax |-> Zero,
     opStopped |-> FALSE, opStarted |-> FALSE, opTicks |-> 0,
     opConfigured |-> FALSE, unmatched |-> FALSE]

\* a new session starts (start() resets the detector)
NewSession(g) ==
    [g EXCEPT !.aboveRunStart = NoTime, !.debounced = FALSE,
              !.interrupted = FALSE,
              !.sessLoud = TRUE, !.sessQuiet = TRUE, !.sessStarted = FALSE,
              !.sessMax = Zero,
              !.c5pos = 0, !.c6pos = 0,
              !.c3phase = "idle", !.c3zeroStart = NoTime, !.c3ends = 0]

\* the samples of the scenario "0.5 at t=0,50,100, then 0.0 at t=150,250,350"
Scenario5 == << <<0, Half>>, <<5, Half>>, <<10, Half>>,
                <<15, Zero>>, <<25, Zero>>, <<35, Zero>> >>

\* the samples of the scenario "0.5 at t=0, 0.0 at t=50, 0.5 from t=60 on"
Scenario6 == << <<0, Half>>, <<5, Zero>>, <<6, Half>> >>

NextPos5(pos, t, raw, cfg) ==
    IF pos >= 0 /\ pos < Len(Scenario5) /\ cfg = ScenarioConfig
       /\ Scenario5[pos + 1] = <<t, raw>>
    THEN pos + 1 ELSE NoTime

NextPos6(pos, t, raw, cfg) ==
    IF pos < 0 \/ cfg # ScenarioConfig THEN NoTime
    ELSE IF pos < Len(Scenario6)
         THEN (IF Scenario6[pos + 1] = <<t, raw>> THEN pos + 1 ELSE NoTime)
         ELSE (IF raw = Half THEN pos ELSE NoTime)

\* "after a voiceStart, zero-energy samples, then samples above threshold"
NextPhase3(g, t, level, cfg) ==
    LET isZero == level = Zero
        isLoud == RGt(level, cfg.threshold)
    IN CASE g.c3phase = "idle" -> g
         [] g.c3phase = "started" /\ isZero ->
                [g EXCEPT !.c3phase = "zeros", !.c3zeroStart = t]
         [] g.c3phase = "started" /\ isLoud -> g
         [] g.c3phase = "zeros" /\ isZero -> g
         [] g.c3phase = "zeros" /\ isLoud /\ t - g.c3zeroStart < cfg.maxSilence ->
                [g EXCEPT !.c3phase = "resumed", !.c3zeroStart = NoTime]
         [] g.c3phase = "resumed" /\ isLoud -> g
         [] OTHER -> [g EXCEPT !.c3phase = "idle", !.c3zeroStart = NoTime,
                               !.c3ends = 0]

\* one sample read by the analysis loop
GhostSample(d, level) ==
    [d EXCEPT !.ghost = [NextPhase3(@, d.now, level, d.config) EXCEPT
        !.nTicks = IF d.config.smoothing = Zero THEN @ ELSE @ + 1,
        !.opTicks = @ + 1,
        !.sessMax = IF RGt(d.sample, @) THEN d.sample ELSE @,
        !.sessLoud = @ /\ RGt(RMul(d.sample, d.config.sensitivity),
                               d.config.threshold),
        !.sessQuiet = @ /\ RLt(RMul(d.sample, d.config.sensitivity),
                                d.config.threshold),
        !.c5pos = NextPos5(@, d.now, d.sample, d.config),
        !.c6pos = NextPos6(@, d.now, d.sample, d.config)]]

\* the verdict of one processed tick
GhostRun(d, above) ==
    [d EXCEPT !.ghost.aboveRunStart =
                  IF above THEN (IF @ = NoTime THEN d.now ELSE @) ELSE NoTime,
              !.ghost.interrupted = @ \/ above]

\* data is the object passed to the listeners of voiceLevel: <<raw, smoothed,
\* timestamp>>; the other events carry no data the model looks at
Snapshot(d, event) ==
    [ev |-> event, site |-> d.site,
     data |-> IF event = "voiceLevel"
              THEN <<d.state.currentLevel, d.state.smoothedLevel, d.now>>
              ELSE << >>,
     sample |-> IF event = "voiceLevel" THEN d.sample ELSE Zero,
     isActive |-> d.state.isActive,
     endOK |-> d.endOK,
     open |-> d.ghost.unmatched,
     tick |-> d.tick,
     entry |-> IF event = "voiceLevel" THEN d.entry ELSE "none"]

Record(d, event) ==
    [d EXCEPT !.emitted = Append(@, Snapshot(d, event)),
              !.ghost.sessStarted = @ \/ event = "voiceStart",
              !.ghost.unmatched = IF event = "voiceStart" THEN TRUE
                                  ELSE IF event = "voiceEnd" THEN FALSE ELSE @,
              !.ghost.c3ends = IF event = "voiceStart" THEN 0
                               ELSE IF event = "voiceEnd" /\ d.site = "process"
                                       /\ d.ghost.c3phase # "idle"
                               THEN (IF @ < 1 THEN @ + 1 ELSE 2) ELSE @,
              !.ghost.c3phase = IF event = "voiceStart" THEN "started" ELSE @,
              !.ghost.c3zeroStart = IF event = "voiceStart" THEN NoTime ELSE @]

\* the plain feed of samples is over: a listener is about to call back into
\* the detector, or stop() takes effect
Disturb(d) ==
    [d EXCEPT !.ghost.sessLoud = FALSE, !.ghost.c5pos = NoTime,
              !.ghost.c6pos = NoTime, !.ghost.c3phase = "idle",
              !.ghost.c3zeroStart = NoTime, !.ghost.c3ends = 0]

-----------------------------------------------------------------------------
(* The detector's methods, as operators on d = "this" with the inputs of    *)
(* the running operation (d.now: Date.now(), d.sample: the analyser).       *)

RECURSIVE trigger(_, _, _), stop(_, _), start(_, _), startAnalysis(_, _),
          analyze(_, _), processVoiceActivity(_, _, _)

\* isVoiceDetected, the timers and the levels have the values of a reset
IsReset(s) ==
    /\ ~s.isVoiceDetected
    /\ s.voiceStartTime = 0 /\ s.silenceStartTime = 0
    /\ s.currentLevel = Zero /\ s.smoothedLevel = Zero

\* mutant: the reset keeps the levels
resetVADStateKeepsLevels(d) ==
    [d EXCEPT !.state.isVoiceDetected = FALSE,
              !.state.voiceStartTime = 0,
              !.state.silenceStartTime = 0]

resetVADState(d) ==
    [d EXCEPT !.state.isVoiceDetected = FALSE,
              !.state.voiceStartTime = 0,
              !.state.silenceStartTime = 0,
              !.state.currentLevel = Zero,
              !.state.smoothedLevel = Zero]

\* the smallest id requestAnimationFrame has not handed out and still in use
FreshFrame(d) ==
    CHOOSE id \in 1..(2 * MaxPending + 6) :
        /\ id \notin d.pendingFrames \cup {d.animationFrame}
        /\ \A j \in 1..(id - 1) : j \in d.pendingFrames \cup {d.animationFrame}

requestAnimationFrame(d) ==
    [d EXCEPT !.animationFrame = FreshFrame(d),
              !.pendingFrames = @ \cup {FreshFrame(d)}]

cancelAnimationFrame(d, id) ==
    [d EXCEPT !.pendingFrames = @ \ {id}]

trigger(d, event, L) ==
    LET d1 == Record(d, event)
    IN CASE L[event] = "none" -> d1
         [] L[event] = "stop" -> stop(Disturb(d1), L)
         [] L[event] = "start" -> start(Disturb(d1), L)

stop(d, L) ==
    IF ~d.state.isActive THEN [d EXCEPT !.ret = "true"]
    ELSE
        LET d1 == [Disturb(d) EXCEPT !.state.isActive = FALSE,
                                     !.ghost.opStopped = TRUE]
            d2 == IF d1.animationFrame # 0
                  THEN [cancelAnimationFrame(d1, d1.animationFrame)
                            EXCEPT !.animationFrame = 0]
                  ELSE d1
            d3 == IF d2.state.isVoiceDetected
                  THEN trigger([d2 EXCEPT !.state.isVoiceDetected = FALSE,
                                          !.site = "stop", !.endOK = FALSE],
                               "voiceEnd", L)
                  ELSE d2
        IN [d3 EXCEPT !.ret = "true"]

\* mutant: start() does not check that a microphone is connected
startUnchecked(d, L) ==
    IF d.state.isActive THEN [d EXCEPT !.ret = "true"]
    ELSE
        LET d1 == [resetVADState(d) EXCEPT
                      !.ghost = NewSession(@),
                      !.entry = IF IsReset(d.state) THEN "clean" ELSE "reset"]
            d2 == [d1 EXCEPT !.state.isActive = TRUE, !.ghost.opStarted = TRUE]
        IN [startAnalysis(d2, L) EXCEPT !.ret = "true"]

start(d, L) ==
    IF ~d.state.isConnected THEN [d EXCEPT !.ret = "false"]
    ELSE IF d.state.isActive THEN [d EXCEPT !.ret = "true"]
    ELSE
        LET d1 == [resetVADState(d) EXCEPT
                      !.ghost = NewSession(@),
                      !.entry = IF IsReset(d.state) THEN "clean" ELSE "reset"]
            d2 == [d1 EXCEPT !.state.isActive = TRUE, !.ghost.opStarted = TRUE]
        IN [startAnalysis(d2, L) EXCEPT !.ret = "true"]

startAnalysis(d, L) == analyze(d, L)

\* mutant: the new sample is not weighted by (1 - smoothing)
SmoothNoDecay(old, level, smoothing) ==
    RAdd(RMul(old, smoothing), level)

\* mutant: the samples are summed up
SmoothAccumulates(old, level, smoothing) == RAdd(old, level)

Smooth(old, level, smoothing) ==
    RAdd(RMul(old, smoothing), RMul(level, RSub(One, smoothing)))

IsAboveThreshold(d) == RGt(d.state.smoothedLevel, d.config.threshold)

\* mutant: an above-threshold tick during a voice period stops the silence
\* countdown
AboveBranchStopsCountdown(d, L) ==
    IF d.state.isVoiceDetected
    THEN [d EXCEPT !.state.silenceStartTime = 0]
    ELSE IF d.state.voiceStartTime = 0
         THEN [d EXCEPT !.state.voiceStartTime = d.now]
         ELSE IF d.now - d.state.voiceStartTime >= d.config.minDuration
              THEN trigger(
                     [d EXCEPT !.state.isVoiceDetected = TRUE,
                               !.state.silenceStartTime = 0,
                               !.site = "process",
                               !.ghost.debounced =
                                   /\ d.ghost.aboveRunStart # NoTime
                                   /\ d.now - d.ghost.aboveRunStart
                                          >= d.config.minDuration],
                     "voiceStart", L)
              ELSE d

AboveBranch(d, L) ==
    LET d1 == d
    IN IF ~d1.state.isVoiceDetected
       THEN IF d1.state.voiceStartTime = 0
            THEN [d1 EXCEPT !.state.voiceStartTime = d.now]
            ELSE IF d.now - d1.state.voiceStartTime >= d.config.minDuration
                 THEN trigger(
                        [d1 EXCEPT !.state.isVoiceDetected = TRUE,
                                   !.state.silenceStartTime = 0,
                                   !.site = "process",
                                   !.ghost.debounced =
                                       /\ d.ghost.aboveRunStart # NoTime
                                       /\ d.now - d.ghost.aboveRunStart
                                              >= d.config.minDuration],
                        "voiceStart", L)
                 ELSE d1
       ELSE d1

\* mutant: a below-threshold tick leaves the start-candidate timer running
BelowBranchKeepsTimer(d) ==
    IF d.state.isVoiceDetected /\ d.state.silenceStartTime = 0
    THEN [d EXCEPT !.state.silenceStartTime = d.now,
                   !.ghost.interrupted = FALSE]
    ELSE d

BelowBranch(d) ==
    LET d1 == IF d.state.isVoiceDetected /\ d.state.silenceStartTime = 0
              THEN [d EXCEPT !.state.silenceStartTime = d.now,
                             !.ghost.interrupted = FALSE]
              ELSE d
    IN IF ~d1.state.isVoiceDetected
       THEN [d1 EXCEPT !.state.voiceStartTime = 0]
       ELSE d1

\* mutant: the voiceEnd transition leaves the timers as they are
SilenceCheckKeepsTimers(d, L) ==
    IF d.state.isVoiceDetected /\ d.state.silenceStartTime > 0
       /\ d.now - d.state.silenceStartTime >= d.config.maxSilence
    THEN trigger([d EXCEPT !.state.isVoiceDetected = FALSE,
                           !.site = "process",
                           !.endOK =
                               /\ ~d.ghost.interrupted
                               /\ d.now - d.state.silenceStartTime
                                      >= d.config.maxSilence],
                 "voiceEnd", L)
    ELSE d

SilenceCheck(d, L) ==
    IF d.state.isVoiceDetected /\ d.state.silenceStartTime > 0
       /\ d.now - d.state.silenceStartTime >= d.config.maxSilence
    THEN trigger([d EXCEPT !.state.isVoiceDetected = FALSE,
                           !.state.voiceStartTime = 0,
                           !.state.silenceStartTime = 0,
                           !.site = "process",
                           !.endOK =
                               /\ ~d.ghost.interrupted
                               /\ d.now - d.state.silenceStartTime
                                      >= d.config.maxSilence],
                 "voiceEnd", L)
    ELSE d

\* mutant: voiceLevel is emitted after the verdict of the tick
processVoiceActivityLevelLast(d, level, L) ==
    LET d1 == [d EXCEPT !.state.smoothedLevel =
                            Smooth(@, level, d.config.smoothing),
                        !.state.currentLevel = level,
                        !.site = "process"]
        above == IsAboveThreshold(d1)
        d3 == GhostRun(d1, above)
        d4 == IF above THEN AboveBranch(d3, L) ELSE BelowBranch(d3)
    IN trigger(SilenceCheck(d4, L), "voiceLevel", L)

processVoiceActivity(d, level, L) ==
    LET d1 == [d EXCEPT !.state.smoothedLevel =
                            Smooth(@, level, d.config.smoothing),
                        !.state.currentLevel = level,
                        !.site = "process"]
        d2 == trigger(d1, "voiceLevel", L)
        above == IsAboveThreshold(d2)
        d3 == GhostRun(d2, above)
        d4 == IF above THEN AboveBranch(d3, L) ELSE BelowBranch(d3)
    IN SilenceCheck(d4, L)

\* mutant: the gain is not applied
NormalizedLevelNoGain(raw, sensitivity) == raw

NormalizedLevel(raw, sensitivity) == RMul(raw, sensitivity)

\* the closure `analyze` of startAnalysis; with a null analyser the read of
\* the frequency data throws and the callback ends there
analyze(d, L) ==
    IF ~d.state.isActive THEN d
    ELSE IF ~d.analyser THEN d
    ELSE
        LET level == NormalizedLevel(d.sample, d.config.sensitivity)
            d0 == [d EXCEPT !.entry = IF @ = "later" \/ IsReset(d.state)
                                     THEN @ ELSE "stale",
                            !.tick = d.ghost.opTicks + 1]
            d1 == processVoiceActivity(GhostSample(d0, level), level, L)
        IN requestAnimationFrame([d1 EXCEPT !.entry = "later",
                                            !.tick = d.tick])

\* this.stream and the streams of the browser whose tracks are live; the
\* history field `watched` says whether the streams are followed at all
\* (they are in SpecAudio and SpecInFlight only: the other specifications
\* keep NoAudio).  `pending` counts the calls of connect() that wait for
\* getUserMedia(); the history field `fresh` says that connect() has been
\* called since disconnect() last returned.
NoAudio ==
    [watched |-> FALSE, stream |-> 0, live |-> {}, pending |-> 0,
     fresh |-> FALSE]

\* getUserMedia() resolves with a new stream, assigned to this.stream
getUserMedia(d) ==
    IF ~d.audio.watched THEN d
    ELSE LET id == CHOOSE i \in 1..(MaxStreams + 1) : i \notin d.audio.live
         IN [d EXCEPT !.audio.stream = id, !.audio.live = @ \cup {id}]

\* this.stream.getTracks().forEach(track => track.stop()); this.stream = null
stopTracks(d) ==
    [d EXCEPT !.audio.stream = 0, !.audio.live = @ \ {d.audio.stream}]

disconnect(d, L) ==
    LET d1 == stopTracks(stop(d, L))
    IN [d1 EXCEPT !.analyser = FALSE, !.state.isConnected = FALSE,
                  !.audio.fresh = FALSE, !.ret = "undefined"]

\* { ...this.config, ...newConfig }
Merge(old, new) ==
    [f \in DOMAIN old \cup DOMAIN new |->
        IF f \in DOMAIN new THEN new[f] ELSE old[f]]

\* mutant: the spread the other way round, { ...newConfig, ...this.config }
updateConfigOldWins(d, newConfig) ==
    [d EXCEPT !.config = Merge(newConfig, d.config),
              !.ghost.opConfigured = TRUE,
              !.ret = "undefined"]

updateConfig(d, newConfig) ==
    [d EXCEPT !.config = Merge(d.config, newConfig),
              !.ghost.opConfigured = TRUE,
              !.ret = "undefined"]

\* the calls of connect() that can throw, in the order of the code, and
\* "none" for a connect() in which none does
FailurePoints == <<"getUserMedia", "AudioContext", "createMediaStreamSource",
                   "none">>

Before(p, q) ==
    \E i, j \in DOMAIN FailurePoints :
        i < j /\ FailurePoints[i] = p /\ FailurePoints[j] = q

\* connect() in which the call `failure` throws (the promise of getUserMedia
\* rejects): what is assigned before that call stays assigned
connect(d, failure, L) ==
    LET d1 == IF Before("getUserMedia", failure) THEN getUserMedia(d) ELSE d
        d2 == IF Before("AudioContext", failure)
              THEN [d1 EXCEPT !.analyser = TRUE] ELSE d1
    IN IF failure = "none"
       THEN [d2 EXCEPT !.state.isConnected = TRUE, !.ret = "true"]
       ELSE [trigger([d2 EXCEPT !.site = "connect"], "error", L)
                 EXCEPT !.ret = "false"]

\* connect() up to its await: getUserMedia() is called and connect() waits
\* for the promise
request(d) ==
    [d EXCEPT !.audio.pending = @ + 1, !.audio.fresh = TRUE, !.ret = "pending"]

\* the promise of getUserMedia() settles and connect() resumes
resume(d, failure, L) ==
    connect([d EXCEPT !.audio.pending = @ - 1], failure, L)

-----------------------------------------------------------------------------
(* VoiceOrbCore (src/unnamed/part_000), the animation controller.          *)
(*                                                                         *)
(* Its numbers are the rationals above and NaN, which Math.min and         *)
(* Math.max hand through.  The player is one lottie-player element of the  *)
(* page: `player` says whether this.player refers to it, `element` holds   *)
(* the properties the controller writes.  The element fires no events of   *)
(* its own here.  The configuration is the default one (no callbacks).     *)
(* A listener sees the state at the moment it is called, and it returns or  *)
(* throws; in SpecOff it may also call off().  Each trigger() is written   *)
(* to `log` as an entry with id 0, followed by one entry per listener it   *)
(* called (id: the listener's place in the order of registration when the  *)
(* trigger() began; removed: the place of the listener it removed, or 0).  *)

NaN == <<0, 0>>
IsNaN(x) == x[2] = 0

MathMin(x, y) == IF IsNaN(x) \/ IsNaN(y) THEN NaN ELSE IF RLt(x, y) THEN x ELSE y
MathMax(x, y) == IF IsNaN(x) \/ IsNaN(y) THEN NaN ELSE IF RGt(x, y) THEN x ELSE y

CoreConfig ==
    [defaultSpeed |-> One, minSpeed |-> Tenth, maxSpeed |-> <<3, 1>>,
     minOpacity |-> <<4, 5>>, maxOpacity |-> One,
     minVoiceLevel |-> Tenth, maxVoiceLevel |-> <<3, 1>>]

NewCore ==
    [state |-> [isInitialized |-> FALSE, isPlaying |-> FALSE,
                isLooping |-> TRUE, currentSpeed |-> CoreConfig.defaultSpeed,
                voiceLevel |-> One, opacity |-> One],
     player |-> FALSE,
     element |-> [speed |-> One, loop |-> FALSE, opacity |-> One,
                  playback |-> "loaded"],
     eventListeners |-> << >>,
     log |-> << >>,
     ret |-> "undefined"]

\* argument values of setSpeed, setOpacity and setVoiceLevel
Args == {<<0 - 1, 1>>, <<9, 5>>, <<5, 1>>, NaN}

\* the events that listeners are registered for
ListenedEvents == {"speedChange"}

\* listeners registered at the same time
MaxListeners == 2

\* mutant: the player reference is not looked at
core_isReadyInitOnly(o) == o.state.isInitialized

core_isReady(o) == o.state.isInitialized /\ o.player

\* the places, in the order of registration, of the listeners of `event`
ListenersFor(o, event) ==
    SelectSeq([i \in DOMAIN o.eventListeners |-> i],
              LAMBDA i : o.eventListeners[i].event = event)

\* s without its element at place i: splice(i, 1)
Splice(s, i) == SubSeq(s, 1, i - 1) \o SubSeq(s, i + 1, Len(s))

Invocation(o, event, data, id, threw, removed) ==
    [ev |-> event, id |-> id, data |-> data, seen |-> o.state, threw |-> threw,
     removed |-> removed]

\* off() with the callback registered at place i
core_off(o, i) == [o EXCEPT !.eventListeners = Splice(@, i)]

RECURSIVE Dispatch(_, _, _, _, _, _), DispatchUntilThrow(_, _, _, _, _, _)
\* mutant: the exception of a callback ends the forEach
DispatchUntilThrow(o, event, data, k, n, ids) ==
    LET array == ListenersFor(o, event)
    IN IF k > n \/ k > Len(array) THEN o
       ELSE LET l == o.eventListeners[array[k]]
                o1 == [o EXCEPT !.log =
                         Append(@, Invocation(o, event, data, ids[array[k]],
                                              l.throws, 0))]
            IN IF l.throws THEN o1
               ELSE DispatchUntilThrow(o1, event, data, k + 1, n, ids)

\* forEach over the array of the listeners of `event`, from index k on: n is
\* the length the array had when forEach began, ids[p] the place that the
\* listener now at place p had then.  The callback called may call off()
\* for itself or for the listener before it in the array (l.removes); an
\* exception of a callback is caught and logged.
Dispatch(o, event, data, k, n, ids) ==
    LET array == ListenersFor(o, event)
    IN IF k > n \/ k > Len(array) THEN o
       ELSE LET l == o.eventListeners[array[k]]
                target == CASE l.removes = "self" -> array[k]
                            [] l.removes = "previous" /\ k > 1 -> array[k - 1]
                            [] OTHER -> 0
                o1 == [o EXCEPT !.log =
                         Append(@, Invocation(o, event, data, ids[array[k]],
                                              l.throws,
                                              IF target = 0 THEN 0
                                              ELSE ids[target]))]
            IN IF target = 0
               THEN Dispatch(o1, event, data, k + 1, n, ids)
               ELSE Dispatch(core_off(o1, target), event, data, k + 1, n,
                             Splice(ids, target))

core_trigger(o, event, data) ==
    Dispatch([o EXCEPT !.log =
                 Append(@, Invocation(o, event, data, 0, FALSE, 0))],
             event, data, 1, Len(ListenersFor(o, event)),
             [i \in DOMAIN o.eventListeners |-> i])

\* on() with a callback that throws or not, and that calls off() or not
core_on(o, event, throws, removes) ==
    [o EXCEPT !.eventListeners =
        Append(@, [event |-> event, throws |-> throws, removes |-> removes])]

\* init(playerElement): "element" is the lottie-player itself or its id,
\* "missing" an id that no element has, "invalid" any other value
core_init(o, playerElement) ==
    IF playerElement = "invalid"
    THEN [core_trigger(o, "error", << >>) EXCEPT !.ret = "false"]
    ELSE IF playerElement = "missing"
    THEN [core_trigger([o EXCEPT !.player = FALSE], "error", << >>)
              EXCEPT !.ret = "false"]
    ELSE LET o1 == [o EXCEPT !.player = TRUE,
                             !.element.loop = o.state.isLooping,
                             !.element.speed = o.state.currentSpeed,
                             !.state.isInitialized = TRUE]
         IN [core_trigger(o1, "ready", << >>) EXCEPT !.ret = "true"]

core_play(o) ==
    IF ~core_isReady(o) THEN [o EXCEPT !.ret = "false"]
    ELSE LET o1 == [o EXCEPT !.element.playback = "playing",
                             !.state.isPlaying = TRUE]
         IN [core_trigger(o1, "play", << >>) EXCEPT !.ret = "true"]

core_pause(o) ==
    IF ~core_isReady(o) THEN [o EXCEPT !.ret = "false"]
    ELSE LET o1 == [o EXCEPT !.element.playback = "paused",
                             !.state.isPlaying = FALSE]
         IN [core_trigger(o1, "pause", << >>) EXCEPT !.ret = "true"]

core_stop(o) ==
    IF ~core_isReady(o) THEN [o EXCEPT !.ret = "false"]
    ELSE LET o1 == [o EXCEPT !.element.playback = "stopped",
                             !.state.isPlaying = FALSE]
         IN [core_trigger(o1, "stop", << >>) EXCEPT !.ret = "true"]

Clamp(x, lo, hi) == MathMax(lo, MathMin(hi, x))

core_setSpeed(o, speed) ==
    IF ~core_isReady(o) THEN [o EXCEPT !.ret = "false"]
    ELSE LET clampedSpeed == Clamp(speed, CoreConfig.minSpeed, CoreConfig.maxSpeed)
             o1 == [o EXCEPT !.element.speed = clampedSpeed,
                             !.state.currentSpeed = clampedSpeed]
         IN [core_trigger(o1, "speedChange", <<clampedSpeed>>)
                 EXCEPT !.ret = "true"]

core_setLoop(o, loop) ==
    IF ~core_isReady(o) THEN [o EXCEPT !.ret = "false"]
    ELSE LET o1 == [o EXCEPT !.element.loop = loop, !.state.isLooping = loop]
         IN [core_trigger(o1, "loopChange", << >>) EXCEPT !.ret = "true"]

core_setVoiceLevel(o, level) ==
    IF ~core_isReady(o) THEN [o EXCEPT !.ret = "false"]
    ELSE LET clampedLevel == Clamp(level, CoreConfig.minVoiceLevel,
                                   CoreConfig.maxVoiceLevel)
             o1 == core_setSpeed(o, clampedLevel)
             halved == IF IsNaN(clampedLevel) THEN NaN
                       ELSE RMul(clampedLevel, Half)
             opacity == Clamp(halved, CoreConfig.minOpacity,
                              CoreConfig.maxOpacity)
             o2 == [o1 EXCEPT !.element.opacity = opacity,
                              !.state.voiceLevel = clampedLevel,
                              !.state.opacity = opacity]
         IN [core_trigger(o2, "voiceChange", <<clampedLevel, opacity>>)
                 EXCEPT !.ret = "true"]

core_setOpacity(o, opacity) ==
    IF ~core_isReady(o) THEN [o EXCEPT !.ret = "false"]
    ELSE LET clampedOpacity == Clamp(opacity, Zero, One)
             o1 == [o EXCEPT !.element.opacity = clampedOpacity,
                             !.state.opacity = clampedOpacity]
         IN [core_trigger(o1, "opacityChange", <<clampedOpacity>>)
                 EXCEPT !.ret = "true"]

core_destroy(o) ==
    core_trigger([o EXCEPT !.state.isInitialized = FALSE, !.player = FALSE,
                           !.eventListeners = << >>],
                 "destroy", << >>)

-----------------------------------------------------------------------------
(* VoiceOrbAdvanced (src/unnamed/part_000), the orchestrator: w is "this",  *)
(* with w.vad the detector and w.orb the controller.  The callbacks that    *)
(* on() registers go to both registries, so o.eventListeners is also the    *)
(* list of the consumer's listeners in the detector's registry, where they  *)
(* come after the three handlers of setupVADHandlers().  Every call that    *)
(* the last operation made on the controller, and every consumer listener   *)
(* called for a detector event, is written to `calls` (id 0: a controller   *)
(* call, ev: the detector event that caused it or "manual").  lastManual is  *)
(* history: when setVoiceLevel() last suspended the detector, until the     *)
(* consumer connects, disconnects or enables the detector again.            *)

\* setTimeout(..., 2000), in units of 10 ms
GraceWindow == 200

\* pending timers of setVoiceLevel() at the same time
MaxTimers == 2

NewAdvanced ==
    [isConnected |-> FALSE, isVADActive |-> FALSE, timers |-> << >>,
     calls |-> << >>, lastManual |-> NoTime, ret |-> "undefined"]

Call(w, o, event, call, arg) ==
    [w EXCEPT !.orb = o,
              !.calls = Append(@, [ev |-> event, id |-> 0, call |-> call,
                                   arg |-> arg, threw |-> FALSE])]

\* mutant: the smoothed level is passed on as it is
adv_handlerUnscaled(w, s) ==
    CASE s.ev = "voiceStart" ->
             Call(w, core_play(w.orb), s.ev, "play", << >>)
      [] s.ev = "voiceEnd" ->
             Call(w, core_pause(w.orb), s.ev, "pause", << >>)
      [] s.ev = "voiceLevel" ->
             LET level == MathMax(Tenth, MathMin(<<3, 1>>, s.data[2]))
             IN Call(w, core_setVoiceLevel(w.orb, level), s.ev,
                     "setVoiceLevel", <<level>>)
      [] OTHER -> w

\* the handlers of setupVADHandlers(), called with the snapshot s of a
\* detector event
adv_handler(w, s) ==
    CASE s.ev = "voiceStart" ->
             Call(w, core_play(w.orb), s.ev, "play", << >>)
      [] s.ev = "voiceEnd" ->
             Call(w, core_pause(w.orb), s.ev, "pause", << >>)
      [] s.ev = "voiceLevel" ->
             LET level == MathMax(Tenth,
                                  MathMin(<<3, 1>>, RMul(s.data[2], <<3, 1>>)))
             IN Call(w, core_setVoiceLevel(w.orb, level), s.ev,
                     "setVoiceLevel", <<level>>)
      [] OTHER -> w

RECURSIVE Heard(_, _, _), Drive(_, _)
\* the detector's forEach over the consumer's listeners from place i on
Heard(w, s, i) ==
    IF i > Len(w.orb.eventListeners) THEN w
    ELSE LET l == w.orb.eventListeners[i]
             w1 == IF l.event = s.ev
                   THEN [w EXCEPT !.calls =
                            Append(@, [ev |-> s.ev, id |-> i, call |-> "listener",
                                       arg |-> << >>, threw |-> l.throws])]
                   ELSE w
         IN Heard(w1, s, i + 1)

\* the detector events from the k-th of this operation on reach the
\* handlers and then the consumer's listeners
Drive(w, k) ==
    IF k > Len(w.vad.emitted) THEN w
    ELSE Drive(Heard(adv_handler(w, w.vad.emitted[k]), w.vad.emitted[k], 1),
               k + 1)

\* a call into the detector that leaves it as d
Vad(w, d) == Drive([w EXCEPT !.vad = d], Len(w.vad.emitted) + 1)

adv_init(w, playerElement) ==
    LET o == core_init(w.orb, playerElement)
    IN [w EXCEPT !.orb = o, !.ret = o.ret]

adv_connectMicrophone(w, failure) ==
    LET w1 == Vad(w, connect(w.vad, failure, Quiet))
    IN IF w1.vad.ret # "true" THEN [w1 EXCEPT !.ret = "false"]
       ELSE LET w2 == [w1 EXCEPT !.isConnected = TRUE, !.lastManual = NoTime]
                w3 == Vad(w2, start(w2.vad, Quiet))
            IN IF w3.vad.ret = "true"
               THEN [w3 EXCEPT !.isVADActive = TRUE, !.ret = "true"]
               ELSE [w3 EXCEPT !.ret = "false"]

adv_disconnectMicrophone(w) ==
    [Vad(w, disconnect(w.vad, Quiet))
        EXCEPT !.isConnected = FALSE, !.isVADActive = FALSE,
               !.lastManual = NoTime]

adv_setVAD(w, enabled) ==
    IF ~w.isConnected THEN [w EXCEPT !.ret = "false"]
    ELSE LET w1 == IF enabled /\ ~w.isVADActive
                   THEN LET w2 == Vad(w, start(w.vad, Quiet))
                        IN [w2 EXCEPT !.isVADActive = (w2.vad.ret = "true"),
                                      !.lastManual = NoTime]
                   ELSE IF ~enabled /\ w.isVADActive
                   THEN [Vad(w, stop(w.vad, Quiet)) EXCEPT !.isVADActive = FALSE]
                   ELSE w
         IN [w1 EXCEPT !.ret = IF w1.isVADActive = enabled THEN "true"
                               ELSE "false"]

Manual(w, o, call, arg) == [Call(w, o, "manual", call, arg) EXCEPT !.ret = o.ret]

\* mutant: play() forwards whatever isVADActive is
adv_playUnprotected(w) == Manual(w, core_play(w.orb), "play", << >>)

adv_play(w) ==
    IF w.isVADActive THEN [w EXCEPT !.ret = "false"]
    ELSE Manual(w, core_play(w.orb), "play", << >>)

adv_pause(w) ==
    IF w.isVADActive THEN [w EXCEPT !.ret = "false"]
    ELSE Manual(w, core_pause(w.orb), "pause", << >>)

\* mutant: the timer does not start the detector
adv_timeoutIdle(w) == w

adv_stop(w) ==
    IF w.isVADActive THEN [w EXCEPT !.ret = "false"]
    ELSE Manual(w, core_stop(w.orb), "stop", << >>)

\* the callback of the timer of setVoiceLevel()
adv_timeout(w) ==
    IF w.isConnected THEN Vad(w, start(w.vad, Quiet)) ELSE w

adv_setVoiceLevel(w, level) ==
    LET w1 == IF w.isVADActive
              THEN [Vad(w, stop(w.vad, Quiet))
                       EXCEPT !.timers = Append(@, w.vad.now + GraceWindow),
                              !.lastManual = w.vad.now]
              ELSE w
    IN Manual(w1, core_setVoiceLevel(w1.orb, level), "setVoiceLevel", <<level>>)

adv_on(w, event, throws) ==
    [w EXCEPT !.orb = core_on(w.orb, event, throws, "none")]

adv_off(w, i) == [w EXCEPT !.orb = core_off(w.orb, i)]

-----------------------------------------------------------------------------
(* The state machine *)

\* this.state; lastVoiceTime is only ever written (resetVADState and the
\* above-threshold branch), never read, and is left out
InitState ==
    [isActive |-> FALSE, isVoiceDetected |-> FALSE,
     currentLevel |-> Zero, smoothedLevel |-> Zero,
     voiceStartTime |-> 0, silenceStartTime |-> 0,
     isConnected |-> FALSE]

Constructed ==
    /\ state = InitState
    /\ config \in Configs
    /\ analyser = FALSE
    /\ animationFrame = 0
    /\ pendingFrames = {}
    /\ now = 0
    /\ emitted = << >>
    /\ returned = "undefined"
    /\ ghost = InitGhost

Init == Constructed /\ audio = NoAudio /\ orb = NewCore /\ adv = NewAdvanced

\* "this" at the entry of an operation that reads sample `raw`; d.ret is
\* what the operation returns (connect(): what its promise resolves to)
This(raw) ==
    [state |-> state, config |-> config, analyser |-> analyser,
     animationFrame |-> animationFrame, pendingFrames |-> pendingFrames,
     now |-> now, sample |-> raw, emitted |-> << >>, audio |-> audio,
     site |-> "none", endOK |-> FALSE, ret |-> "undefined",
     entry |-> "later", tick |-> 0,
     ghost |-> [ghost EXCEPT !.opStopped = FALSE, !.opStarted = FALSE,
                             !.opTicks = 0, !.opConfigured = FALSE]]

\* Frame ids are opaque: a state is kept up to their renaming (the pending
\* callbacks become 1..n, a live animationFrame 1, a stale one n + 1)
CanonFrame(d) ==
    LET n == Cardinality(d.pendingFrames)
    IN IF d.animationFrame = 0 THEN 0
       ELSE IF d.animationFrame \in d.pendingFrames THEN 1
       ELSE n + 1

CommitVad(d) ==
    /\ Cardinality(d.pendingFrames) <= MaxPending
    /\ state' = d.state
    /\ config' = d.config
    /\ analyser' = d.analyser
    /\ animationFrame' = CanonFrame(d)
    /\ pendingFrames' = 1..Cardinality(d.pendingFrames)
    /\ emitted' = d.emitted
    /\ returned' = d.ret
    /\ ghost' = d.ghost
    /\ audio' = d.audio
    /\ now' = now

Commit(d) == CommitVad(d) /\ UNCHANGED <<orb, adv>>

Budget == ghost.nTicks < MaxTicks

\* the listeners that can run in an operation emitting only `events`
ListenersOf(events) ==
    {L \in Listeners : \A e \in Events \ events : L[e] = "none"}

\* the analyser is read only by an operation that runs a tick
Samples(L) == IF \E e \in Events : L[e] = "start" THEN RawLevels ELSE {Zero}

ConnectWith(failures) ==
    /\ Budget
    /\ \E failure \in failures :
           \E L \in (IF failure = "none" THEN {Quiet}
                     ELSE ListenersOf({"error", "voiceLevel"})) :
               \E raw \in Samples(L) :
                   Commit(connect(This(raw), failure, L))

\* connect() that succeeds or whose getUserMedia() rejects
Connect == ConnectWith({"none", "getUserMedia"})

\* connect() failing at any of its calls, or at none
Acquire ==
    /\ Cardinality(audio.live) < MaxStreams
    /\ ConnectWith({FailurePoints[i] : i \in DOMAIN FailurePoints})

Start ==
    /\ Budget
    /\ \E raw \in RawLevels, L \in ListenersOf({"voiceLevel"}) :
           Commit(start(This(raw), L))

Stop ==
    /\ Budget
    /\ \E L \in ListenersOf({"voiceEnd", "voiceLevel"}) : \E raw \in Samples(L) :
           Commit(stop(This(raw), L))

Disconnect ==
    /\ Budget
    /\ \E L \in ListenersOf({"voiceEnd", "voiceLevel"}) : \E raw \in Samples(L) :
           Commit(disconnect(This(raw), L))

UpdateConfig ==
    \E newConfig \in Options : Commit(updateConfig(This(Zero), newConfig))

\* processVoiceActivity(level) called from outside the analysis loop, also
\* with levels outside [0, 1]
ProcessVoiceActivity ==
    /\ Budget
    /\ \E level \in RawLevels \cup {<<0 - 1, 2>>, <<3, 2>>},
          L \in ListenersOf({"voiceLevel", "voiceStart", "voiceEnd"}) :
           LET d == [This(level) EXCEPT !.tick = 1]
           IN Commit([processVoiceActivity(GhostSample(d, level), level, L)
                          EXCEPT !.ret = "undefined"])

\* the browser runs a pending animation-frame callback
Frame ==
    /\ Budget
    /\ \E id \in pendingFrames, raw \in RawLevels,
          L \in ListenersOf({"voiceLevel", "voiceStart", "voiceEnd"}) :
           Commit([analyze([This(raw) EXCEPT !.pendingFrames = @ \ {id}], L)
                       EXCEPT !.ret = "undefined"])

\* Date.now() moves on to one of `instants`
Advance(instants) ==
    /\ \E t \in instants :
           /\ t > now
           /\ now' = t
    /\ emitted' = << >>
    /\ returned' = "undefined"
    /\ ghost' = [ghost EXCEPT !.opStopped = FALSE, !.opStarted = FALSE,
                              !.opTicks = 0, !.opConfigured = FALSE]
    /\ UNCHANGED <<state, config, analyser, animationFrame, pendingFrames,
                   audio>>

Clock == Advance(Instants) /\ UNCHANGED <<orb, adv>>

\* the configuration stays as it was constructed
Next == Start \/ Frame \/ Clock \/ Stop \/ Disconnect \/ Connect

Spec == Init /\ [][Next]_vars

\* a detector constructed with ScenarioConfig whose configuration is updated
\* while it runs
InitConfig == Init /\ config = ScenarioConfig

NextConfig == Next \/ UpdateConfig

SpecConfig == InitConfig /\ [][NextConfig]_vars

\* the detector with the microphone streams of the browser followed, at one
\* instant
InitAudio ==
    /\ Constructed /\ audio = [NoAudio EXCEPT !.watched = TRUE]
    /\ orb = NewCore /\ adv = NewAdvanced

NextAudio == Acquire \/ Disconnect \/ Start \/ Stop \/ Frame

SpecAudio == InitAudio /\ [][NextAudio]_vars

\* calls of connect() waiting for getUserMedia() at the same time
MaxInFlight == 1

\* connect() is called and waits for getUserMedia()
Request ==
    /\ audio.pending < MaxInFlight
    /\ Commit(request(This(Zero)))

\* the promise of getUserMedia() resolves or rejects
Resume ==
    /\ Budget
    /\ audio.pending > 0 /\ Cardinality(audio.live) < MaxStreams
    /\ \E failure \in {"none", "getUserMedia"} :
           \E L \in (IF failure = "none" THEN {Quiet}
                     ELSE ListenersOf({"error", "voiceLevel"})) :
               \E raw \in Samples(L) :
                   Commit(resume(This(raw), failure, L))

NextInFlight == Request \/ Resume \/ Disconnect \/ Start \/ Stop \/ Frame

\* the detector whose connect() waits for the microphone while other calls
\* are made, at one instant
SpecInFlight == InitAudio /\ [][NextInFlight]_vars

\* the detector fed with levels by its caller as well, at one instant
NextLevels == Connect \/ Start \/ Stop \/ Frame \/ ProcessVoiceActivity

SpecLevels == Init /\ [][NextLevels]_vars

\* the controller at the entry of an operation
ThisCore == [orb EXCEPT !.log = << >>, !.ret = "undefined"]

CoreInit ==
    \E playerElement \in {"element", "missing", "invalid"} :
        /\ orb' = core_init(ThisCore, playerElement)
        /\ UNCHANGED vad

CorePlay == orb' = core_play(ThisCore) /\ UNCHANGED vad

CorePause == orb' = core_pause(ThisCore) /\ UNCHANGED vad

CoreStop == orb' = core_stop(ThisCore) /\ UNCHANGED vad

CoreSetSpeed ==
    \E speed \in Args :
        orb' = core_setSpeed(ThisCore, speed) /\ UNCHANGED vad

CoreSetLoop ==
    \E loop \in BOOLEAN :
        orb' = core_setLoop(ThisCore, loop) /\ UNCHANGED vad

CoreSetVoiceLevel ==
    \E level \in Args :
        orb' = core_setVoiceLevel(ThisCore, level) /\ UNCHANGED vad

CoreSetOpacity ==
    \E opacity \in Args :
        orb' = core_setOpacity(ThisCore, opacity) /\ UNCHANGED vad

CoreOn ==
    /\ Len(orb.eventListeners) < MaxListeners
    /\ \E event \in ListenedEvents, throws \in BOOLEAN :
           orb' = core_on(ThisCore, event, throws, "none") /\ UNCHANGED vad

CoreOff ==
    \E i \in DOMAIN orb.eventListeners :
        orb' = core_off(ThisCore, i) /\ UNCHANGED vad

CoreDestroy == orb' = core_destroy(ThisCore) /\ UNCHANGED vad

NextCore ==
    \/ CoreInit \/ CorePlay \/ CorePause \/ CoreStop \/ CoreSetSpeed
    \/ CoreSetLoop \/ CoreSetVoiceLevel \/ CoreSetOpacity \/ CoreOn
    \/ CoreOff \/ CoreDestroy

\* the animation controller on its own
SpecCore == InitConfig /\ [][NextCore]_vars

\* on() with a callback that calls off() for itself (a listener for one
\* event only) or for the listener registered before it, or for none
CoreOnce ==
    /\ Len(orb.eventListeners) < MaxListeners
    /\ \E event \in ListenedEvents, removes \in {"none", "self", "previous"} :
           orb' = core_on(ThisCore, event, FALSE, removes) /\ UNCHANGED vad

NextOff == CoreInit \/ CoreOnce \/ CoreOff \/ CoreSetSpeed

\* the animation controller with listeners that unsubscribe while they are
\* called
SpecOff == InitConfig /\ [][NextOff]_vars

\* instants of the orchestrator's behaviours
OrbInstants == {100, 200}

\* what the analyser delivers to the orchestrator's detector
OrbSamples == {Zero, Half}

\* events the consumer registers listeners for with VoiceOrbAdvanced.on()
AdvListened == {"voiceLevel", "speedChange"}

\* the orchestrator at the entry of an operation that reads sample `raw`
ThisAdv(raw) ==
    [vad |-> This(raw), orb |-> ThisCore,
     isConnected |-> adv.isConnected, isVADActive |-> adv.isVADActive,
     timers |-> adv.timers, calls |-> << >>, lastManual |-> adv.lastManual,
     ret |-> "undefined"]

\* (the history of the detector is not kept for the orchestrator)
CommitAdv(w) ==
    /\ CommitVad([w.vad EXCEPT !.ghost = InitGhost])
    /\ orb' = w.orb
    /\ adv' = [isConnected |-> w.isConnected, isVADActive |-> w.isVADActive,
               timers |-> w.timers, calls |-> w.calls,
               lastManual |-> w.lastManual, ret |-> w.ret]

AdvInit ==
    \E playerElement \in {"element", "invalid"} :
        CommitAdv(adv_init(ThisAdv(Zero), playerElement))

AdvConnectMicrophone ==
    \E failure \in {"none", "getUserMedia"}, raw \in OrbSamples :
        CommitAdv(adv_connectMicrophone(ThisAdv(raw), failure))

AdvDisconnectMicrophone ==
    TRUE /\ CommitAdv(adv_disconnectMicrophone(ThisAdv(Zero)))

AdvSetVAD ==
    \E enabled \in BOOLEAN, raw \in OrbSamples :
        CommitAdv(adv_setVAD(ThisAdv(raw), enabled))

\* play(), pause() or stop() of the orchestrator
AdvPlayback ==
    \/ CommitAdv(adv_play(ThisAdv(Zero)))
    \/ CommitAdv(adv_pause(ThisAdv(Zero)))
    \/ CommitAdv(adv_stop(ThisAdv(Zero)))

AdvSetVoiceLevel ==
    /\ Len(adv.timers) < MaxTimers
    /\ \E level \in {<<9, 5>>} :
           CommitAdv(adv_setVoiceLevel(ThisAdv(Zero), level))

\* the browser runs a timer of setVoiceLevel() that is due
AdvTimeout ==
    \E i \in DOMAIN adv.timers, raw \in OrbSamples :
        /\ adv.timers[i] <= now
        /\ LET w == ThisAdv(raw)
           IN CommitAdv(adv_timeout(
                  [w EXCEPT !.timers = Splice(@, i)]))

\* the browser runs a pending animation-frame callback of the detector
AdvFrame ==
    \E id \in pendingFrames, raw \in OrbSamples :
        LET w == ThisAdv(raw)
            d == [w.vad EXCEPT !.pendingFrames = @ \ {id}]
        IN CommitAdv(Vad(w, [analyze(d, Quiet) EXCEPT !.ret = "undefined"]))

AdvOn ==
    /\ Len(orb.eventListeners) < MaxListeners
    /\ \E event \in AdvListened, throws \in BOOLEAN :
           CommitAdv(adv_on(ThisAdv(Zero), event, throws))

AdvOff ==
    \E i \in DOMAIN orb.eventListeners : CommitAdv(adv_off(ThisAdv(Zero), i))

AdvClock ==
    /\ Advance(OrbInstants)
    /\ orb' = ThisCore
    /\ adv' = [adv EXCEPT !.calls = << >>, !.ret = "undefined"]

NextOrb ==
    \/ AdvInit \/ AdvConnectMicrophone \/ AdvDisconnectMicrophone \/ AdvSetVAD
    \/ AdvPlayback \/ AdvSetVoiceLevel \/ AdvTimeout \/ AdvFrame
    \/ AdvClock

\* the orchestrator with its detector and its controller
SpecOrb == InitConfig /\ [][NextOrb]_vars

\* the orchestrator with listeners of the consumer, at one instant
NextListeners ==
    \/ AdvInit \/ AdvOn \/ AdvOff \/ AdvConnectMicrophone \/ AdvFrame
    \/ AdvDisconnectMicrophone

SpecListeners == InitConfig /\ [][NextListeners]_vars

\* the instants of the behaviours in which the timers of setVoiceLevel() run
ResumeInstants == {100, 200, 300}

\* setVoiceLevel() called early enough for its timer to be due in the
\* behaviour
ManualLevel ==
    /\ \E t \in ResumeInstants : now + GraceWindow <= t
    /\ AdvSetVoiceLevel

ResumeClock ==
    /\ Advance(ResumeInstants)
    /\ orb' = ThisCore
    /\ adv' = [adv EXCEPT !.calls = << >>, !.ret = "undefined"]

NextResume ==
    \/ AdvInit \/ AdvConnectMicrophone \/ AdvDisconnectMicrophone \/ AdvSetVAD
    \/ ManualLevel \/ AdvTimeout \/ AdvFrame \/ ResumeClock

\* the orchestrator in a browser whose clock goes on and which runs the
\* timers that are due: weak fairness of ResumeClock and of AdvTimeout, the
\* latter with its enabling condition (a timer is due) written out
SpecResume ==
    /\ InitConfig /\ [][NextResume]_vars
    /\ WF_vars(ResumeClock)
    /\ \/ []<>(\A i \in DOMAIN adv.timers : adv.timers[i] > now)
       \/ []<><<AdvTimeout>>_vars

-----------------------------------------------------------------------------
(* Properties *)

\* the operation that ran last processed a sample
Ticked == \E i \in DOMAIN emitted : emitted[i].ev = "voiceLevel"

Emitted(event) == {i \in DOMAIN emitted : emitted[i].ev = event}

\* C1: isVoiceDetected is true only if the tick that set it ended a run of
\* consecutive above-threshold ticks at least minDuration long.
CE_C1 == state.isVoiceDetected => ghost.debounced

\* C2: a voiceEnd emitted by sample processing comes at least maxSilence
\* after the tick that started the silence timer, and no above-threshold
\* tick was processed since that tick.
CE_C2 ==
    \A i \in Emitted("voiceEnd") :
        emitted[i].site = "process" => emitted[i].endOK

\* C3: after a voiceStart, zero-energy samples over a span >= maxSilence give
\* exactly one voiceEnd (stated without smoothing, where the first zero-energy
\* sample is the first below-threshold tick); zero-energy samples over a
\* shorter span followed by samples above threshold give no voiceEnd while
\* the samples stay above.
CE_C3 ==
    /\ (ghost.c3phase = "zeros" /\ Ticked /\ config.smoothing = Zero
            /\ now - ghost.c3zeroStart >= config.maxSilence)
           => ghost.c3ends = 1
    /\ ghost.c3phase = "resumed" => ghost.c3ends = 0

\* C4: with a constant input above threshold, after each tick voice is
\* detected exactly if the time since the first above-threshold tick is at
\* least minDuration (voiceStart at the first such tick, not before).
CE_C4 ==
    (ghost.sessLoud /\ Ticked /\ ghost.aboveRunStart # NoTime)
        => (state.isVoiceDetected
                <=> now - ghost.aboveRunStart >= config.minDuration)

\* C5: in the scenario 0.5 at t=0,50,100 then 0.0 at t=150,250,350, voiceStart
\* fires at the t=100 tick and voiceEnd at the t=350 tick, not earlier.
CE_C5 ==
    /\ ghost.c5pos \in {1, 2} => ~state.isVoiceDetected
    /\ ghost.c5pos \in {3, 4, 5} => state.isVoiceDetected
    /\ (ghost.c5pos = 3 /\ Ticked) => Emitted("voiceStart") # {}
    /\ ghost.c5pos = 6 => ~state.isVoiceDetected
    /\ (ghost.c5pos = 6 /\ Ticked) => Emitted("voiceEnd") # {}

\* C6: a below-threshold tick while no voice is detected clears the
\* start-candidate timer, a running start-candidate timer lies inside the
\* current above-threshold run, and in the scenario 0.5 at t=0, 0.0 at t=50,
\* 0.5 from t=60 on no voice is detected before t=160.
T_C6 ==
    /\ (Ticked /\ ~IsAboveThreshold([state |-> state, config |-> config])
            /\ ~state.isVoiceDetected)
           => state.voiceStartTime = 0
    /\ (state.isActive /\ ~state.isVoiceDetected /\ state.voiceStartTime # 0)
           => /\ ghost.aboveRunStart # NoTime
              /\ ghost.aboveRunStart <= state.voiceStartTime
    /\ (ghost.c6pos >= 1 /\ now < 16) => ~state.isVoiceDetected

\* C6 witnesses: the scenario reaches t=100 with no voice, and t=160 with it
W_C6 ==
    /\ ghost.c6pos = 3 /\ now = 16 /\ Ticked
    /\ state.isVoiceDetected /\ state.voiceStartTime = 6

\* C7: while every raw sample of the session is below threshold/sensitivity,
\* no voice is detected and no voiceStart has been emitted.
T_C7 == ghost.sessQuiet => (~state.isVoiceDetected /\ ~ghost.sessStarted)

W_C7 ==
    /\ ghost.sessQuiet /\ Ticked /\ ghost.nTicks >= 2
    /\ state.smoothedLevel # Zero /\ state.currentLevel # Zero
    /\ ~state.isVoiceDetected

\* C8: stop() called on an active detector while voice is detected emits
\* exactly one voiceEnd, and isActive is still true when it is delivered.
CE_C8 ==
    [][(Stop /\ state.isActive /\ state.isVoiceDetected)
          => /\ Cardinality({i \in DOMAIN emitted' : emitted'[i].ev = "voiceEnd"}) = 1
             /\ \A i \in DOMAIN emitted' :
                    emitted'[i].ev = "voiceEnd" => emitted'[i].isActive]_vars

\* C9: between operations, isActive = false implies isVoiceDetected = false.
CE_C9 == ~state.isActive => ~state.isVoiceDetected

\* C10: when a listener called stop() during a tick (and nothing started the
\* detector again), no animation-frame callback is pending after the tick.
CE_C10 == (Ticked /\ ghost.opStopped /\ ~ghost.opStarted) => pendingFrames = {}

\* C11: start() on an active detector returns true, changes no state field
\* and leaves the pending animation-frame callbacks as they were (no second
\* loop).
CE_C11 ==
    [][(state.isActive /\ Start)
          => /\ returned' = "true"
             /\ state' = state
             /\ pendingFrames' = pendingFrames
             /\ animationFrame' = animationFrame]_vars

\* C12: start() on a detector that is not connected returns false, changes no
\* state field, schedules no tick and emits no event.
T_C12 ==
    [][(~state.isConnected /\ Start)
          => /\ returned' = "false"
             /\ state' = state
             /\ pendingFrames' = pendingFrames
             /\ animationFrame' = animationFrame
             /\ emitted' = << >>]_vars

\* start() has just failed on a disconnected detector that still holds the
\* levels of an earlier session
W_C12 ==
    /\ returned = "false" /\ emitted = << >>
    /\ ~state.isConnected /\ ~state.isActive
    /\ state.currentLevel # Zero

\* C13: the first tick after a start() that took effect finds
\* isVoiceDetected = false, both timers unset and both levels 0.
T_C13 == \A i \in DOMAIN emitted : emitted[i].entry # "stale"

\* a start() found values of an earlier session, and its first tick found
\* them reset
W_C13 == \E i \in DOMAIN emitted : emitted[i].entry = "reset"

\* the events of tick k of the operation that ran last
OfTick(k) == {i \in DOMAIN emitted : emitted[i].tick = k}

\* C14: every processed tick emits exactly one voiceLevel, and every
\* voiceStart or voiceEnd that sample processing emits in that tick comes
\* after it.
T_C14 ==
    \A k \in 1..ghost.opTicks :
        /\ Cardinality(OfTick(k) \cap Emitted("voiceLevel")) = 1
        /\ \A i \in OfTick(k) :
               (emitted[i].site = "process" /\ emitted[i].ev # "voiceLevel")
                   => \E j \in OfTick(k) :
                          j < i /\ emitted[j].ev = "voiceLevel"

\* one tick ran: it emitted voiceLevel, then voiceEnd
W_C14 ==
    /\ ghost.opTicks = 1 /\ Len(emitted) = 2
    /\ emitted[1].ev = "voiceLevel" /\ emitted[2].ev = "voiceEnd"
    /\ emitted[2].site = "process" /\ emitted[2].tick = 1

\* a step that ran exactly one tick, on the state it started from
OneTickStep == ghost'.opTicks = 1 /\ ~ghost'.opStarted

\* smoothedLevel after a tick that read sample `raw` at level `old`
Averaged(old, raw) ==
    RAdd(RMul(old, config.smoothing),
         RMul(RMul(raw, config.sensitivity), RSub(One, config.smoothing)))

RLe(x, y) == ~RGt(x, y)

CE_C17 ==
    /\ ~(state.voiceStartTime # 0 /\ state.silenceStartTime # 0)
    /\ state.isVoiceDetected => state.voiceStartTime = 0
    /\ ~state.isVoiceDetected => state.silenceStartTime = 0

\* C17 amended: while isVoiceDetected is true voiceStartTime keeps its
\* non-zero value; while isVoiceDetected is false on an active detector
\* silenceStartTime is unset.
T_C17 ==
    /\ state.isVoiceDetected => state.voiceStartTime # 0
    /\ (state.isActive /\ ~state.isVoiceDetected) => state.silenceStartTime = 0

\* a silence countdown during a voice period: both timers are set
W_C17 ==
    /\ state.isActive /\ state.isVoiceDetected /\ Ticked
    /\ state.voiceStartTime # 0 /\ state.silenceStartTime # 0
    /\ state.silenceStartTime > state.voiceStartTime

\* C18: a silence timer that is set while voice is detected changes only in
\* a step that emits voiceEnd or voiceStart; an above-threshold tick that
\* leaves voice detected leaves it as it is.
T_C18 ==
    [][(/\ state.isVoiceDetected /\ state.silenceStartTime # 0
        /\ state'.silenceStartTime # state.silenceStartTime)
          => \E i \in DOMAIN emitted' :
                 emitted'[i].ev \in {"voiceEnd", "voiceStart"}]_vars

\* after an above-threshold tick of a voice period the countdown started
\* by an earlier tick is still running
W_C18 ==
    /\ state.isActive /\ state.isVoiceDetected
    /\ ghost.opTicks = 1 /\ Len(emitted) = 1
    /\ IsAboveThreshold([state |-> state, config |-> config])
    /\ state.silenceStartTime # 0 /\ state.silenceStartTime < now

\* C19: updateConfig() replaces the fields it is given and keeps the others,
\* changes no state field, no pending tick and emits nothing; the ticks that
\* follow decide with the configuration in force.
T_C19 ==
    /\ [][UpdateConfig
             => /\ \E o \in Options :
                       \A f \in DOMAIN config :
                           config'[f] = IF f \in DOMAIN o THEN o[f]
                                        ELSE config[f]
                /\ DOMAIN config' = DOMAIN config
                /\ state' = state
                /\ pendingFrames' = pendingFrames
                /\ animationFrame' = animationFrame
                /\ emitted' = << >>]_vars
    /\ []((ghost.opTicks = 1 /\ ~ghost.opStarted /\ ~ghost.opStopped)
             => /\ Emitted("voiceStart") # {}
                       => now - state.voiceStartTime >= config.minDuration
                /\ (~state.isVoiceDetected /\ state.voiceStartTime # 0)
                       => now - state.voiceStartTime < config.minDuration
                /\ (state.isVoiceDetected /\ state.silenceStartTime # 0)
                       => now - state.silenceStartTime < config.maxSilence)

\* updateConfig() has shortened minDuration on an active detector whose
\* start-candidate timer has run for less than the old and at least the new
\* minDuration
W_C19 ==
    /\ ghost.opConfigured /\ state.isActive /\ ~state.isVoiceDetected
    /\ config = Merge(ScenarioConfig, [minDuration |-> 5, maxSilence |-> 10])
    /\ state.voiceStartTime # 0
    /\ now - state.voiceStartTime >= config.minDuration
    /\ now - state.voiceStartTime < ScenarioConfig.minDuration

\* C20: disconnect() ends with isActive, isVoiceDetected and isConnected
\* false, and emits exactly one voiceEnd if voice was detected when it was
\* called, none otherwise; stated for the calls made when voice is detected
\* only on an active detector.
CE_C20 ==
    [][(/\ state.isActive \/ ~state.isVoiceDetected
        /\ ~state'.isConnected
        /\ Disconnect)
          => /\ ~state'.isActive
             /\ ~state'.isVoiceDetected
             /\ Cardinality({i \in DOMAIN emitted' :
                                 emitted'[i].ev = "voiceEnd"})
                    = IF state.isVoiceDetected THEN 1 ELSE 0]_vars

\* C21: a connect() that fails emits exactly one error, returns false and
\* leaves isActive false and both timers unset (stated for the calls whose
\* error listeners do not start the detector).
CE_C21 ==
    (returned = "false" /\ Emitted("error") # {} /\ ~ghost.opStarted)
        => /\ Cardinality(Emitted("error")) = 1
           /\ ~state.isActive
           /\ state.voiceStartTime = 0 /\ state.silenceStartTime = 0

\* C22: a connect() that returns failure leaves open no stream that was not
\* open before it, and after disconnect() no stream acquired by an earlier
\* connect() is open.
CE_C22 ==
    [][/\ (Acquire /\ returned' = "false") => audio'.live \subseteq audio.live
       /\ (audio.live # {} /\ Disconnect) => audio'.live = {}]_vars

\* C22, its first half alone: the failing connect()
CE_C22_failure ==
    [][(Acquire /\ returned' = "false") => audio'.live \subseteq audio.live]_vars

\* C22, its second half alone: disconnect()
CE_C22_disconnect ==
    [][(audio.live # {} /\ Disconnect) => audio'.live = {}]_vars

\* what does hold: disconnect() releases the stream that this.stream names
T_C22_current ==
    [][(audio.stream # 0 /\ Disconnect)
           => audio'.live = audio.live \ {audio.stream} /\ audio'.stream = 0]_vars

\* the number x is in [lo, hi]
Within(x, lo, hi) == ~IsNaN(x) /\ ~RLt(x, lo) /\ ~RGt(x, hi)

\* C23: whatever level is processed, the raw and smoothed levels kept in the
\* state and passed to the voiceLevel listeners are within [0, 1].
CE_C23 ==
    /\ Within(state.currentLevel, Zero, One)
    /\ Within(state.smoothedLevel, Zero, One)
    /\ \A i \in Emitted("voiceLevel") :
           /\ Within(emitted[i].data[1], Zero, One)
           /\ Within(emitted[i].data[2], Zero, One)

\* one of the seven playback and appearance operations of the controller
CoreOperation ==
    \/ CorePlay \/ CorePause \/ CoreStop \/ CoreSetSpeed \/ CoreSetLoop
    \/ CoreSetOpacity \/ CoreSetVoiceLevel

\* C24: while the controller is not ready, play, pause, stop, setSpeed,
\* setLoop, setOpacity and setVoiceLevel return false, change neither the
\* state nor the player and emit nothing.
T_C24 ==
    [][(~(orb.state.isInitialized /\ orb.player) /\ CoreOperation)
           => /\ orb'.ret = "false"
              /\ orb'.state = orb.state
              /\ orb'.element = orb.element /\ orb'.player = orb.player
              /\ orb'.log = << >>]_vars

\* an operation has been refused on a controller destroyed after use
W_C24 ==
    /\ ~orb.player /\ orb.ret = "false" /\ orb.log = << >>
    /\ orb.element.playback = "playing" /\ ~orb.state.isInitialized

\* C25: whatever arguments setSpeed, setOpacity and setVoiceLevel are given,
\* currentSpeed is within [minSpeed, maxSpeed], opacity within [0, 1] and
\* voiceLevel within [minVoiceLevel, maxVoiceLevel].
CE_C25 ==
    /\ Within(orb.state.currentSpeed, CoreConfig.minSpeed, CoreConfig.maxSpeed)
    /\ Within(orb.state.opacity, Zero, One)
    /\ Within(orb.state.voiceLevel, CoreConfig.minVoiceLevel,
              CoreConfig.maxVoiceLevel)

\* what does hold: each of the three values is in its range or NaN
T_C25_numbers ==
    /\ IsNaN(orb.state.currentSpeed)
         \/ Within(orb.state.currentSpeed, CoreConfig.minSpeed, CoreConfig.maxSpeed)
    /\ IsNaN(orb.state.opacity) \/ Within(orb.state.opacity, Zero, One)
    /\ IsNaN(orb.state.voiceLevel)
         \/ Within(orb.state.voiceLevel, CoreConfig.minVoiceLevel,
                   CoreConfig.maxVoiceLevel)

\* the operation that ran last called trigger(event)
Emits(log, event) == \E k \in DOMAIN log : log[k].id = 0 /\ log[k].ev = event

\* C26: setVoiceLevel() updates speed, voiceLevel and opacity together: no
\* listener runs while the speed is the new one and voiceLevel or opacity
\* are not yet the ones setVoiceLevel() returns with.
CE_C26 ==
    Emits(orb.log, "voiceChange")
        => \A k \in DOMAIN orb.log :
               (orb.log[k].id > 0
                    /\ orb.log[k].seen.currentSpeed = orb.state.currentSpeed)
                   => /\ orb.log[k].seen.voiceLevel = orb.state.voiceLevel
                      /\ orb.log[k].seen.opacity = orb.state.opacity

\* what does hold: the values setVoiceLevel(level) returns with, for a
\* number level
T_C26_values ==
    [][\A level \in Args \ {NaN} :
          (orb.state.isInitialized /\ orb.player
               /\ orb' = core_setVoiceLevel(ThisCore, level))
              => LET Saturated(x, lo, hi) ==
                         IF RLt(x, lo) THEN lo ELSE IF RGt(x, hi) THEN hi ELSE x
                     c == Saturated(level, Tenth, <<3, 1>>)
                 IN /\ orb'.ret = "true"
                    /\ orb'.state.voiceLevel = c
                    /\ orb'.state.currentSpeed = c
                    /\ orb'.state.opacity
                           = Saturated(RMul(c, Half), <<4, 5>>, One)]_vars

\* every trigger() of the last operation called the listeners registered
\* for its event, each once, in the order of registration
Delivered(o) ==
    \A k \in DOMAIN o.log :
        o.log[k].id = 0
            => LET ids == ListenersFor(o, o.log[k].ev)
               IN /\ \A m \in DOMAIN ids :
                         /\ k + m \in DOMAIN o.log
                         /\ o.log[k + m].id = ids[m]
                         /\ o.log[k + m].ev = o.log[k].ev
                  /\ (k + Len(ids) + 1 \in DOMAIN o.log)
                         => o.log[k + Len(ids) + 1].id = 0

\* each operation that succeeds emits its own event before it returns
EmitsOwnEvent ==
    /\ CorePlay => Emits(orb'.log, "play")
    /\ CorePause => Emits(orb'.log, "pause")
    /\ CoreStop => Emits(orb'.log, "stop")
    /\ CoreSetSpeed => Emits(orb'.log, "speedChange")
    /\ CoreSetLoop => Emits(orb'.log, "loopChange")
    /\ CoreSetOpacity => Emits(orb'.log, "opacityChange")
    /\ CoreSetVoiceLevel => Emits(orb'.log, "voiceChange")

\* C27: every operation that succeeds emits its event before it returns
\* (opacityChange whenever the opacity changes), to the listeners of that
\* event in the order of registration.
CE_C27 ==
    [][(orb.state.isInitialized /\ orb.player /\ CoreOperation)
           => /\ EmitsOwnEvent
              /\ Delivered(orb')
              /\ orb'.state.opacity # orb.state.opacity
                     => Emits(orb'.log, "opacityChange")]_vars

\* what does hold: C27 without the clause on opacityChange
T_C27_rest ==
    [][(orb.state.isInitialized /\ orb.player /\ CoreOperation)
           => EmitsOwnEvent /\ Delivered(orb')]_vars

\* C29: the detector events of an operation and the controller calls they
\* cause correspond one to one and in order: voiceStart to play(), voiceEnd
\* to pause(), voiceLevel to setVoiceLevel(clamp(3 * smoothed, 0.1, 3)); the
\* controller runs no other play, pause or setVoiceLevel than those calls
\* and the consumer's own.
T_C29 ==
    LET heard == SelectSeq(emitted, LAMBDA s : s.ev # "error")
        DetectorCalls ==
            SelectSeq(adv.calls, LAMBDA c : c.id = 0 /\ c.ev # "manual")
        CallsOf(call) == {k \in DOMAIN adv.calls : adv.calls[k].call = call}
        EmitsOf(event) ==
            {k \in DOMAIN orb.log : orb.log[k].id = 0 /\ orb.log[k].ev = event}
        scaled(x) == LET y == RMul(x, <<3, 1>>)
                     IN IF RLt(y, Tenth) THEN Tenth
                        ELSE IF RGt(y, <<3, 1>>) THEN <<3, 1>> ELSE y
    IN /\ Len(DetectorCalls) = Len(heard)
       /\ \A i \in DOMAIN heard :
              /\ DetectorCalls[i].ev = heard[i].ev
              /\ heard[i].ev = "voiceStart" => DetectorCalls[i].call = "play"
              /\ heard[i].ev = "voiceEnd" => DetectorCalls[i].call = "pause"
              /\ heard[i].ev = "voiceLevel"
                     => /\ DetectorCalls[i].call = "setVoiceLevel"
                        /\ DetectorCalls[i].arg = <<scaled(heard[i].data[2])>>
       /\ (orb.state.isInitialized /\ orb.player /\ ~Emits(orb.log, "ready"))
              => /\ Cardinality(EmitsOf("play")) = Cardinality(CallsOf("play"))
                 /\ Cardinality(EmitsOf("pause")) = Cardinality(CallsOf("pause"))
                 /\ Cardinality(EmitsOf("voiceChange"))
                        = Cardinality(CallsOf("setVoiceLevel"))

\* a tick has emitted voiceLevel and voiceStart, and the controller plays
W_C29 ==
    /\ \E i \in DOMAIN emitted : emitted[i].ev = "voiceStart"
    /\ \E i \in DOMAIN emitted :
           emitted[i].ev = "voiceLevel" /\ emitted[i].data[2] = Half
    /\ orb.state.isPlaying /\ orb.state.voiceLevel = <<3, 2>>
    /\ Emits(orb.log, "play")

\* C30: no timer and no tick of the detector makes a controller call less
\* than 2 seconds after a setVoiceLevel() that suspended the detector.
CE_C30 ==
    [][(adv.lastManual # NoTime /\ now < adv.lastManual + GraceWindow
            /\ (AdvTimeout \/ AdvFrame))
           => \A k \in DOMAIN adv'.calls : adv'.calls[k].ev = "manual"]_vars

\* w with listeners that return where they throw
CalmAdv(w) ==
    LET Returned(log) == [i \in DOMAIN log |-> [log[i] EXCEPT !.threw = FALSE]]
    IN [w EXCEPT !.orb.eventListeners =
                     [i \in DOMAIN @ |-> [@[i] EXCEPT !.throws = FALSE]],
                 !.orb.log = Returned(@),
                 !.calls = Returned(@)]

\* C28: in both registries a listener that throws stops neither the other
\* listeners of the event nor the operation: every trigger() of the last
\* operation reached all the listeners registered for its event, and each
\* operation ends as it does with listeners that return, up to the record
\* of who threw.
T_C28 ==
    /\ Delivered(orb)
    /\ \A k \in DOMAIN adv.calls :
           (adv.calls[k].id = 0 /\ adv.calls[k].ev # "manual")
               => LET ids == ListenersFor(orb, adv.calls[k].ev)
                  IN \A m \in DOMAIN ids :
                         /\ k + m \in DOMAIN adv.calls
                         /\ adv.calls[k + m].id = ids[m]
                         /\ adv.calls[k + m].ev = adv.calls[k].ev
    /\ \A raw \in OrbSamples :
           LET w == ThisAdv(raw)
           IN /\ CalmAdv(adv_connectMicrophone(w, "none"))
                     = adv_connectMicrophone(CalmAdv(w), "none")
              /\ CalmAdv(adv_setVoiceLevel(w, Half))
                     = adv_setVoiceLevel(CalmAdv(w), Half)
              /\ \A id \in pendingFrames :
                     LET d == [w.vad EXCEPT !.pendingFrames = @ \ {id}]
                     IN CalmAdv(Vad(w, analyze(d, Quiet)))
                            = Vad(CalmAdv(w), analyze(d, Quiet))

\* a voiceLevel listener and a speedChange listener have thrown in an
\* operation, after which the handler and the controller went on
W_C28 ==
    /\ \E k \in DOMAIN adv.calls :
           adv.calls[k].id > 0 /\ adv.calls[k].threw
    /\ \E k \in DOMAIN orb.log :
           /\ orb.log[k].id > 0 /\ orb.log[k].threw
           /\ \E j \in DOMAIN orb.log :
                  j > k /\ orb.log[j].id = 0 /\ orb.log[j].ev = "voiceChange"
    /\ adv.ret = "true"

\* the last operation was a setVoiceLevel() of the consumer that suspended
\* the detector
Suspended ==
    /\ adv.lastManual = now /\ adv.calls # << >>
    /\ adv.calls[Len(adv.calls)].ev = "manual"
    /\ adv.calls[Len(adv.calls)].call = "setVoiceLevel"
    /\ ~state.isActive

\* C31: after a setVoiceLevel() of the consumer that suspended the detector,
\* the detector is active again with its tick loop scheduled at some later
\* moment, unless the microphone is disconnected or VAD is disabled before.
T_C31 ==
    Suspended ~> \/ state.isActive /\ animationFrame \in pendingFrames
                 \/ ~adv.isConnected \/ ~adv.isVADActive

\* the timer of a manual call has started the detector 2 seconds after the
\* call, and the first tick has driven the controller
W_C31 ==
    /\ adv.lastManual # NoTime /\ now = adv.lastManual + GraceWindow
    /\ state.isActive /\ animationFrame \in pendingFrames
    /\ adv.isConnected /\ adv.isVADActive /\ adv.timers = << >>
    /\ \E k \in DOMAIN adv.calls :
           adv.calls[k].ev = "voiceLevel" /\ adv.calls[k].call = "setVoiceLevel"
    /\ orb.ret = "true"

\* C32: while isVADActive is true, play(), pause() and stop() of the
\* orchestrator return false, make no call on the controller and leave its
\* state and its player as they are; while it is false they make the one
\* call of the same name on the controller and return what it returns.
T_C32 ==
    [][AdvPlayback
          => IF adv.isVADActive
             THEN /\ adv'.ret = "false" /\ adv'.calls = << >>
                  /\ orb'.log = << >>
                  /\ orb'.state = orb.state /\ orb'.element = orb.element
             ELSE /\ Len(adv'.calls) = 1 /\ adv'.calls[1].ev = "manual"
                  /\ adv'.ret = orb'.ret
                  /\ orb' = CASE adv'.calls[1].call = "play" -> core_play(ThisCore)
                               [] adv'.calls[1].call = "pause" -> core_pause(ThisCore)
                               [] adv'.calls[1].call = "stop" -> core_stop(ThisCore)
                  /\ (orb.state.isInitialized /\ orb.player)
                         => /\ adv'.ret = "true"
                            /\ orb'.state.isPlaying
                                   = (adv'.calls[1].call = "play")]_vars

\* pause() or stop() has been refused while the detector drives a playing
\* controller
W_C32 ==
    /\ adv.isVADActive /\ adv.isConnected /\ state.isActive
    /\ adv.ret = "false" /\ adv.calls = << >> /\ emitted = << >>
    /\ orb.state.isInitialized /\ orb.player /\ orb.state.isPlaying

\* C33: voiceStart and voiceEnd alternate, beginning with voiceStart: a
\* voiceStart is emitted only when every earlier voiceStart has had its
\* voiceEnd, and a voiceEnd only when a voiceStart is unmatched.
CE_C33 ==
    \A i \in DOMAIN emitted :
        /\ emitted[i].ev = "voiceStart" => ~emitted[i].open
        /\ emitted[i].ev = "voiceEnd" => emitted[i].open

\* C34: at most one animation-frame callback of the analysis loop is
\* pending.
CE_C34 == Cardinality(pendingFrames) <= 1

\* C35: once stop() has taken effect, and until the detector is started
\* again, sample processing emits no event and does not set isVoiceDetected,
\* also in the rest of a tick during which a listener called stop().
CE_C35 ==
    /\ \A i \in DOMAIN emitted :
           emitted[i].site = "process" => emitted[i].isActive
    /\ (ghost.opStopped /\ ~ghost.opStarted) => ~state.isVoiceDetected

\* C36: between operations the orchestrator's isVADActive equals the
\* detector's isActive.
CE_C36 == adv.isVADActive = state.isActive

\* C37: while the microphone is connected and VAD is disabled (setVAD(false)
\* has returned true and neither setVAD(true) nor connectMicrophone() was
\* called since), no timer, no animation frame and no other call of the
\* consumer makes the detector active or has it drive the controller.
CE_C37 ==
    [][(/\ adv.isConnected /\ ~adv.isVADActive /\ ~state.isActive
        /\ (AdvTimeout \/ AdvFrame \/ AdvSetVoiceLevel \/ AdvPlayback))
          => /\ ~state'.isActive
             /\ \A k \in DOMAIN adv'.calls : adv'.calls[k].ev = "manual"]_vars

\* C38: while VAD is enabled with the detector active and the controller is
\* ready and looping, the controller plays exactly if voice is detected.
CE_C38 ==
    (/\ adv.isConnected /\ adv.isVADActive /\ state.isActive
     /\ orb.state.isInitialized /\ orb.player /\ orb.state.isLooping)
        => orb.state.isPlaying = state.isVoiceDetected

\* C39: from the return of disconnect() until connect() is called again,
\* isConnected is false and this.stream is unset, also when a connect()
\* called before the disconnect() resumes in between.
CE_C39 == ~audio.fresh => (~state.isConnected /\ audio.stream = 0)

\* C40: every trigger() calls each listener that is registered for the
\* event when it begins and that is not removed during the dispatch, once
\* and in the order of registration, whatever off() the listeners call.
CE_C40 ==
    [][(orb.state.isInitialized /\ orb.player /\ CoreSetSpeed)
          => LET calls == SelectSeq(orb'.log, LAMBDA c : c.id > 0)
                 removed == {calls[j].removed : j \in DOMAIN calls} \ {0}
                 Kept(p) == p \notin removed
             IN SelectSeq([j \in DOMAIN calls |-> calls[j].id], Kept)
                    = SelectSeq(ListenersFor(orb, "speedChange"), Kept)]_vars

====
